---- MODULE Spec2Model ----
(***************************************************************************)
(* PubdateExtractor.parse of newspaper/extractors/pubdate_extractor.py:    *)
(* four harvesting stages append (datetime, score, type) tuples to a       *)
(* local list, the list is sorted, and the best "updated" and "published"  *)
(* entries are stored on the extractor and one of them is returned.        *)
(***************************************************************************)
EXTENDS Integers, Sequences, FiniteSets, TLC

\* ------------------------------------------------------------------ bounds
\* Elements (structured-data objects, <time> elements, meta elements) in a
\* document of the mixed family.
MaxItems == 2
\* Meta/attribute elements in a document of the meta family.
MaxMeta == 2
\* <time> elements in a document of the time family, and words in a text.
MaxTime == 1
MaxWords == 2
\* Structured-data objects per document, and entries of one "@graph".
MaxLd == 1
MaxGraph == 2
\* Keys of one structured-data object.
MaxKeys == 2
\* Elements in a document of the repeated-call family.
MaxSeqItems == 2

SeqUpTo(S, n) == UNION {[1..k -> S] : k \in 0..n}

\* ------------------------------------------------------------- datetimes
\* A datetime is <<day, tod>>: the calendar day relative to the day of the
\* call (0 is today, 1 tomorrow, -1 yesterday) and a time of day in 0..2.
\* Python's None is the empty tuple.
None == <<>>
\* datetime.now(): today, at time of day 1.
now == <<0, 1>>
date(dt) == dt[1]

Yesterday == <<-1, 0>>
TwoDaysAgo == <<-2, 0>>
ThreeDaysAgo == <<-3, 0>>
FourDaysAgo == <<-4, 0>>
Tomorrow == <<1, 0>>
LaterToday == <<0, 2>>
Days9125Ago == <<-(25 * 365), 0>>
Days9126Ago == <<-(25 * 365) - 1, 0>>

\* ---------------------------------------------------------- raw values
\* A value found in a URL, an attribute or a JSON document, by its Python
\* type: JSON null / a missing attribute, "", a string that is no date, a
\* string that is a date (d), a non-zero number, a non-empty mapping with
\* no date in it, a sequence (items).
Val(t, d) == [t |-> t, d |-> d, items |-> <<>>]
Null == Val("null", None)
Empty == Val("empty", None)
Bad == Val("bad", None)
Number == Val("number", None)
Mapping == Val("map", None)
DateStr(d) == Val("date", d)
SeqVal(items) == [t |-> "seq", d |-> None, items |-> items]

\* bool(v), as `if date_str:` takes it.
Truthy(v) ==
    CASE v.t \in {"null", "empty"} -> FALSE
      [] v.t = "seq" -> v.items # <<>>
      [] OTHER -> TRUE

\* dateutil.parser.parse: the exception it raises ("none": it returns val).
date_parser(v) ==
    CASE v.t = "date" -> [exc |-> "none", val |-> v.d]
      [] v.t = "bad" -> [exc |-> "ValueError", val |-> None]
      [] OTHER -> [exc |-> "TypeError", val |-> None]

\* parse_date_str: None for a falsy value and for a caught exception.
parse_date_str(date_str) ==
    IF Truthy(date_str)
    THEN LET r == date_parser(date_str)
         IN IF r.exc \in {"ValueError", "OverflowError", "AttributeError", "TypeError"}
            THEN None
            ELSE r.val
    ELSE None

\* ------------------------------------------------------------------- URL
\* re.search(urls.STRICT_DATE_REGEX, article_url): the matched substring,
\* Null when the URL holds no date pattern.
Url(t, d) == [t |-> t, d |-> d]
date_match(article_url) ==
    CASE article_url.t = "nodate" -> Null
      [] article_url.t = "baddate" -> Bad
      [] OTHER -> DateStr(article_url.d)

url_matches(article_url) ==
    LET m == date_match(article_url)
    IN IF m.t = "null"
       THEN <<>>
       ELSE LET datetime_obj == parse_date_str(m)
            IN IF datetime_obj # None
               THEN << <<datetime_obj, 10, "published">> >>
               ELSE <<>>

\* ------------------------------------------------------- structured data
\* A structured-data object is a sequence of <<key, value>> pairs in key
\* order; an entry of a "@graph" is a mapping (dict) holding dateModified
\* and datePublished (Null when the key is missing) or something else.
Item(dm, dp) == [dict |-> TRUE, dateModified |-> dm, datePublished |-> dp]
NonDict == [dict |-> FALSE, dateModified |-> Null, datePublished |-> Null]

HasKey(o, k) == \E i \in 1..Len(o) : o[i][1] = k
Get(o, k) == o[CHOOSE i \in 1..Len(o) : o[i][1] = k][2]

\* `for item in g` raises TypeError when g is None or a number.
NotIterable(g) == g.t \in {"null", "number"}
\* What `for item in g` yields: the entries of a sequence, the characters of
\* a string, the keys of a mapping.
Iter(g) ==
    CASE g.t = "seq" -> g.items
      [] g.t \in {"bad", "date", "map"} -> <<NonDict>>
      [] OTHER -> <<>>

graph_key_matches(item, date_key, date_type) ==
    LET date_str == IF date_key = "dateModified" THEN item.dateModified
                    ELSE item.datePublished
    IN IF date_str.t = "null"
       THEN <<>>
       ELSE LET datetime_obj == parse_date_str(date_str)
            IN IF datetime_obj # None
               THEN << <<datetime_obj, 10, date_type>> >>
               ELSE <<>>

graph_item_matches(item) ==
    IF ~item.dict
    THEN <<>>
    ELSE graph_key_matches(item, "dateModified", "updated")
         \o graph_key_matches(item, "datePublished", "published")

RECURSIVE graph_matches(_)
graph_matches(g) ==
    IF g = <<>> THEN <<>>
    ELSE graph_item_matches(Head(g)) \o graph_matches(Tail(g))

RECURSIVE flat_matches(_)
flat_matches(script_tag) ==
    IF script_tag = <<>> THEN <<>>
    ELSE LET k == Head(script_tag)[1]
             datetime_obj == parse_date_str(Head(script_tag)[2])
         IN (IF k \in {"dateModified", "datePublished", "dateCreated"}
                /\ datetime_obj # None
             THEN << <<datetime_obj, 9,
                       IF k = "dateModified" THEN "updated" ELSE "published">> >>
             ELSE <<>>)
            \o flat_matches(Tail(script_tag))

\* One pass of the loop over json_ld_scripts: whether it raises, and the
\* tuples it appends.
script_tag_matches(script_tag) ==
    IF HasKey(script_tag, "@graph")
    THEN LET g == Get(script_tag, "@graph")
         IN IF NotIterable(g)
            THEN [raised |-> TRUE, m |-> <<>>]
            ELSE [raised |-> FALSE, m |-> graph_matches(Iter(g))]
    ELSE [raised |-> FALSE, m |-> flat_matches(script_tag)]

RECURSIVE ld_matches(_)
ld_matches(json_ld_scripts) ==
    IF json_ld_scripts = <<>>
    THEN [raised |-> FALSE, m |-> <<>>]
    ELSE LET h == script_tag_matches(Head(json_ld_scripts))
         IN IF h.raised
            THEN h
            ELSE LET r == ld_matches(Tail(json_ld_scripts))
                 IN [raised |-> r.raised, m |-> h.m \o r.m]

\* ------------------------------------------------------- <time> elements
\* A <time> element: its datetime attribute and its text, a sequence of
\* words (present is FALSE when item.text is None).
Text(words) == [present |-> TRUE, words |-> words]
NoText == [present |-> FALSE, words |-> <<>>]
TimeEl(datetime, text) == [datetime |-> datetime, text |-> text]

\* str.lower() on the words and tag names of the model; "^Hon:" is "on:"
\* preceded by the backspace character.
Lower(w) ==
    CASE w = "Updated" -> "updated"
      [] w = "MODIFIED" -> "modified"
      [] w = "Published" -> "published"
      [] OTHER -> w

\* re.search(alternatives, text, re.I): some word is one of the alternatives,
\* whatever its case.
re_search(alternatives, words) ==
    \E i \in 1..Len(words) : Lower(words[i]) \in alternatives

\* "updated|modified"
UpdatedPattern == {"updated", "modified"}
\* "published|\bon:" is no raw string: \b is the backspace character.
PublishedPattern == {"published", "^Hon:"}

time_item_matches(item) ==
    IF Truthy(item.datetime)
    THEN LET datetime_obj == parse_date_str(item.datetime)
             text == item.text.present /\ item.text.words # <<>>
         IN IF datetime_obj = None THEN <<>>
            ELSE IF text /\ re_search(UpdatedPattern, item.text.words)
            THEN << <<datetime_obj, 8, "updated">> >>
            ELSE IF text /\ re_search(PublishedPattern, item.text.words)
            THEN << <<datetime_obj, 7, "published">> >>
            ELSE << <<datetime_obj, 5, "unknown">> >>
    ELSE <<>>

RECURSIVE time_matches(_)
time_matches(tags) ==
    IF tags = <<>> THEN <<>>
    ELSE time_item_matches(Head(tags)) \o time_matches(Tail(tags))

\* ------------------------------------------------- meta/attribute elements
\* An element: its tag, the attribute that names it with that attribute's
\* value, and its content and datetime attributes.
MetaEl(tag, attribute, value, content, datetime) ==
    [tag |-> tag, attribute |-> attribute, value |-> value,
     content |-> content, datetime |-> datetime]

UPDATED_DATE_META_INFO ==
    <<"updated_time", "og:updated_time", "datemodified", "last-modified",
      "Last-Modified", "DC.date.modified", "article:modified_time",
      "modified_time", "modifiedDateTime", "dc.dcterms.modified", "lastmod",
      "eomportal-lastUpdate">>

\* newspaper.extractors.defines: names of date meta tags, some of them names
\* of updated dates, and attribute patterns of date-bearing elements.
PUBLISH_DATE_META_INFO ==
    <<"published_time", "og:updated_time", "article:published_time",
      "lastmod", "pubdate">>
PUBLISH_DATE_TAGS ==
    <<[attribute |-> "itemprop", value |-> "datePublished", content |-> "datetime"],
      [attribute |-> "pubdate", value |-> "pubdate", content |-> "content"]>>

InSeq(x, s) == \E i \in 1..Len(s) : s[i] = x
PUBLISHED_DATE_META_INFO ==
    SelectSeq(PUBLISH_DATE_META_INFO, LAMBDA item : ~InSeq(item, UPDATED_DATE_META_INFO))

\* parsers.get_metatags(doc, value): the meta elements named value, in
\* document order.
get_metatags(doc, value) ==
    SelectSeq(doc, LAMBDA e : e.tag = "meta"
                              /\ e.attribute \in {"name", "property", "itemprop"}
                              /\ e.value = value)
\* parsers.get_elements_by_attribs(doc, {attribute: value}), in document order.
get_elements_by_attribs(doc, attribute, value) ==
    SelectSeq(doc, LAMBDA e : e.attribute = attribute /\ e.value = value)
\* parsers.get_attribute(element, attr)
get_attribute(e, attr) ==
    CASE attr = "content" -> e.content
      [] attr = "datetime" -> e.datetime
      [] OTHER -> Null

Tag3(s, content_attr, date_type) ==
    [i \in 1..Len(s) |-> <<s[i], content_attr, date_type>>]

RECURSIVE by_names(_, _, _)
by_names(doc, names, date_type) ==
    IF names = <<>> THEN <<>>
    ELSE Tag3(get_metatags(doc, Head(names)), "content", date_type)
         \o by_names(doc, Tail(names), date_type)

RECURSIVE by_tags(_, _)
by_tags(doc, tags) ==
    IF tags = <<>> THEN <<>>
    ELSE Tag3(get_elements_by_attribs(doc, Head(tags).attribute, Head(tags).value),
              Head(tags).content, "unknown")
         \o by_tags(doc, Tail(tags))

\* The list `candidates`: (element, content attribute, type).
candidates(doc) ==
    by_names(doc, UPDATED_DATE_META_INFO, "updated")
    \o by_names(doc, PUBLISHED_DATE_META_INFO, "published")
    \o by_tags(doc, PUBLISH_DATE_TAGS)

\* meta_score with `days_diff <= 0` for `days_diff < 0`.
meta_score_today_is_future(tag, date_type, datetime_obj) ==
    LET days_diff == date(now) - date(datetime_obj)
    IN 6
       + (IF Lower(tag) = "meta" THEN 1 ELSE 0)
       + (IF date_type = "updated" THEN 2 ELSE 0)
       + (IF days_diff <= 0 THEN -2
          ELSE IF days_diff > 25 * 365 THEN -1
          ELSE 0)

\* meta_score with `score -= 1` for dates from the future.
meta_score_future_minus_one(tag, date_type, datetime_obj) ==
    LET days_diff == date(now) - date(datetime_obj)
    IN 6
       + (IF Lower(tag) = "meta" THEN 1 ELSE 0)
       + (IF date_type = "updated" THEN 2 ELSE 0)
       + (IF days_diff < 0 THEN -1
          ELSE IF days_diff > 25 * 365 THEN -1
          ELSE 0)

meta_score(tag, date_type, datetime_obj) ==
    LET days_diff == date(now) - date(datetime_obj)
    IN 6
       + (IF Lower(tag) = "meta" THEN 1 ELSE 0)
       + (IF date_type = "updated" THEN 2 ELSE 0)
       + (IF days_diff < 0 THEN -2
          ELSE IF days_diff > 25 * 365 THEN -1
          ELSE 0)

candidate_matches(c) ==
    LET datetime_obj == parse_date_str(get_attribute(c[1], c[2]))
    IN IF datetime_obj # None
       THEN << <<datetime_obj, meta_score(c[1].tag, c[3], datetime_obj), c[3]>> >>
       ELSE <<>>

RECURSIVE pool_matches(_)
pool_matches(cs) ==
    IF cs = <<>> THEN <<>>
    ELSE candidate_matches(Head(cs)) \o pool_matches(Tail(cs))

meta_matches(doc) == pool_matches(candidates(doc))

\* ------------------------------------------------------ sort and selection
\* sort_key without the tie-break: key=lambda x: x[1].
sort_key_score_only(x) == <<x[2], 0>>

\* key=lambda x: (x[1], x[2] == 'updated')
sort_key(x) == <<x[2], IF x[3] = "updated" THEN 1 ELSE 0>>
KeyLess(a, b) == a[1] < b[1] \/ (a[1] = b[1] /\ a[2] < b[2])

\* insert of a sort that is not stable: x goes before the entries whose key
\* equals its own.
RECURSIVE insert_before_equal(_, _)
insert_before_equal(s, x) ==
    IF s = <<>> THEN <<x>>
    ELSE IF ~KeyLess(sort_key(x), sort_key(Head(s))) THEN <<x>> \o s
    ELSE <<Head(s)>> \o insert_before_equal(Tail(s), x)

\* list.sort(reverse=True) is stable: x, later in the list than every entry
\* of s, goes before the first entry whose key is less than its own.
RECURSIVE insert(_, _)
insert(s, x) ==
    IF s = <<>> THEN <<x>>
    ELSE IF KeyLess(sort_key(Head(s)), sort_key(x)) THEN <<x>> \o s
    ELSE <<Head(s)>> \o insert(Tail(s), x)

RECURSIVE sort_from(_, _)
sort_from(sorted, rest) ==
    IF rest = <<>> THEN sorted
    ELSE sort_from(insert(sorted, Head(rest)), Tail(rest))

sort(date_matches) == sort_from(<<>>, date_matches)

\* first_of that also takes an entry of type "unknown".
RECURSIVE first_of_or_unknown(_, _)
first_of_or_unknown(date_matches, kind) ==
    IF date_matches = <<>> THEN None
    ELSE IF Head(date_matches)[3] \in {kind, "unknown"} THEN Head(date_matches)[1]
    ELSE first_of_or_unknown(Tail(date_matches), kind)

\* next((date for date, _, type_ in date_matches if type_ == kind), None)
RECURSIVE first_of(_, _)
first_of(date_matches, kind) ==
    IF date_matches = <<>> THEN None
    ELSE IF Head(date_matches)[3] = kind THEN Head(date_matches)[1]
    ELSE first_of(Tail(date_matches), kind)

\* Lines 54-133 of parse: whether the harvest raises, and date_matches.
harvest(a) ==
    LET ld == ld_matches(a.ld)
    IN [raised |-> ld.raised,
        m |-> IF ld.raised THEN <<>>
              ELSE url_matches(a.url) \o ld.m \o time_matches(a.times)
                   \o meta_matches(a.metas)]

\* ------------------------------------------------------------ documents
\* The arguments of one call: the article URL and the parsed document, as
\* the collaborators see it (its structured-data objects, its <time>
\* elements, its other elements, each in document order).
Doc(url, ld, times, metas) == [url |-> url, ld |-> ld, times |-> times, metas |-> metas]
NoDoc == Doc(Url("nodate", None), <<>>, <<>>, <<>>)

NoDateUrl == Url("nodate", None)
Urls == {NoDateUrl, Url("baddate", None), Url("date", Yesterday)}

\* Mixed family: a few elements of every stage, with equal scores across
\* stages and kinds.
GraphObj(items) == << <<"@graph", SeqVal(items)>> >>
MixLd ==
    {GraphObj(<<Item(DateStr(TwoDaysAgo), DateStr(TwoDaysAgo))>>),
     << <<"@graph", Null>>, <<"datePublished", DateStr(TwoDaysAgo)>> >>,
     << <<"dateModified", DateStr(ThreeDaysAgo)>>, <<"datePublished", DateStr(TwoDaysAgo)>> >>,
     << <<"dateCreated", DateStr(ThreeDaysAgo)>>, <<"datePublished", DateStr(TwoDaysAgo)>> >>,
     << <<"datePublished", DateStr(TwoDaysAgo)>>, <<"dateCreated", DateStr(ThreeDaysAgo)>> >>,
     << <<"datePublished", Bad>> >>}
MixTimes ==
    {TimeEl(DateStr(ThreeDaysAgo), Text(<<"Updated">>)),
     TimeEl(DateStr(TwoDaysAgo), Text(<<"Published">>)),
     TimeEl(DateStr(ThreeDaysAgo), NoText)}
MixMetas ==
    {MetaEl("meta", "property", "og:updated_time", DateStr(TwoDaysAgo), Null),
     MetaEl("meta", "name", "lastmod", DateStr(ThreeDaysAgo), Null),
     MetaEl("meta", "name", "lastmod", DateStr(Tomorrow), Null),
     MetaEl("meta", "property", "article:published_time", DateStr(ThreeDaysAgo), Null),
     MetaEl("span", "itemprop", "datePublished", Null, DateStr(TwoDaysAgo))}

MixDocs(n) ==
    {d \in [url : Urls, ld : SeqUpTo(MixLd, n), times : SeqUpTo(MixTimes, n),
             metas : SeqUpTo(MixMetas, n)] :
        Len(d.ld) + Len(d.times) + Len(d.metas) <= n}

\* -------------------------------------------------------------- the calls
Threads == {1, 2}
Instances == {1, 2}

VARIABLES
    updatedate,     \* self.updatedate of each extractor
    pubdate,        \* self.pubdate of each extractor
    pc,             \* where each thread is in parse
    self,           \* the extractor each thread calls parse on
    arg,            \* article_url and doc of each thread's call
    date_matches,   \* the local list of each thread's call
    ret             \* what each thread's last call returned

vars == <<updatedate, pubdate, pc, self, arg, date_matches, ret>>

\* PubdateExtractor.__init__
Constructed ==
    /\ updatedate = [i \in Instances |-> None]
    /\ pubdate = [i \in Instances |-> None]

Idle ==
    /\ Constructed
    /\ pc = [t \in Threads |-> "idle"]
    /\ self = [t \in Threads |-> 1]
    /\ arg = [t \in Threads |-> NoDoc]
    /\ date_matches = [t \in Threads |-> <<>>]
    /\ ret = [t \in Threads |-> None]

\* Thread 1 has just called parse on a document of D, on a new extractor.
Called(D) ==
    /\ Constructed
    /\ pc = [t \in Threads |-> IF t = 1 THEN "harvest" ELSE "idle"]
    /\ self = [t \in Threads |-> 1]
    /\ arg \in {[t \in Threads |-> IF t = 1 THEN d ELSE NoDoc] : d \in D}
    /\ date_matches = [t \in Threads |-> <<>>]
    /\ ret = [t \in Threads |-> None]

\* parse(article_url, doc) is called on extractor i.
Call(t, i, d) ==
    /\ pc[t] \in {"idle", "done", "raised"}
    /\ pc' = [pc EXCEPT ![t] = "harvest"]
    /\ self' = [self EXCEPT ![t] = i]
    /\ arg' = [arg EXCEPT ![t] = d]
    /\ date_matches' = [date_matches EXCEPT ![t] = <<>>]
    /\ ret' = [ret EXCEPT ![t] = None]
    /\ UNCHANGED <<updatedate, pubdate>>

\* Lines 54-133: the four harvesters; a TypeError leaves parse.
Harvest(t) ==
    /\ pc[t] = "harvest"
    /\ LET h == harvest(arg[t])
       IN /\ pc' = [pc EXCEPT ![t] = IF h.raised THEN "raised" ELSE "sort"]
          /\ date_matches' = [date_matches EXCEPT ![t] = h.m]
    /\ UNCHANGED <<updatedate, pubdate, self, arg, ret>>

\* Line 135
Sort(t) ==
    /\ pc[t] = "sort"
    /\ date_matches' = [date_matches EXCEPT ![t] = sort(date_matches[t])]
    /\ pc' = [pc EXCEPT ![t] = "set_updatedate"]
    /\ UNCHANGED <<updatedate, pubdate, self, arg, ret>>

\* Line 137
SetUpdatedate(t) ==
    /\ pc[t] = "set_updatedate"
    /\ updatedate' = [updatedate EXCEPT ![self[t]] = first_of(date_matches[t], "updated")]
    /\ pc' = [pc EXCEPT ![t] = "set_pubdate"]
    /\ UNCHANGED <<pubdate, self, arg, date_matches, ret>>

\* Line 138
SetPubdate(t) ==
    /\ pc[t] = "set_pubdate"
    /\ pubdate' = [pubdate EXCEPT ![self[t]] = first_of(date_matches[t], "published")]
    /\ pc' = [pc EXCEPT ![t] = "return"]
    /\ UNCHANGED <<updatedate, self, arg, date_matches, ret>>

\* Line 140, left operand of `or`: a datetime is truthy, None is not.
ReadUpdatedate(t) ==
    /\ pc[t] = "return"
    /\ LET v == updatedate[self[t]]
       IN /\ ret' = [ret EXCEPT ![t] = v]
          /\ pc' = [pc EXCEPT ![t] = IF v # None THEN "done" ELSE "or"]
    /\ UNCHANGED <<updatedate, pubdate, self, arg, date_matches>>

\* Line 140, right operand of `or`
ReadPubdate(t) ==
    /\ pc[t] = "or"
    /\ ret' = [ret EXCEPT ![t] = pubdate[self[t]]]
    /\ pc' = [pc EXCEPT ![t] = "done"]
    /\ UNCHANGED <<updatedate, pubdate, self, arg, date_matches>>

Step(t) ==
    \/ Harvest(t)
    \/ Sort(t)
    \/ SetUpdatedate(t)
    \/ SetPubdate(t)
    \/ ReadUpdatedate(t)
    \/ ReadPubdate(t)

\* One call on a new extractor, on a document of the mixed family.
Init == Called(MixDocs(MaxItems))
Next == Step(1)
Spec == Init /\ [][Next]_vars

\* Repeated calls on one extractor, on documents of a small mixed family.
SeqLd ==
    {GraphObj(<<Item(DateStr(TwoDaysAgo), DateStr(TwoDaysAgo))>>),
     << <<"@graph", Null>>, <<"datePublished", DateStr(TwoDaysAgo)>> >>,
     << <<"dateModified", DateStr(ThreeDaysAgo)>>, <<"datePublished", DateStr(TwoDaysAgo)>> >>}
SeqTimes ==
    {TimeEl(DateStr(TwoDaysAgo), Text(<<"Updated">>)),
     TimeEl(DateStr(FourDaysAgo), NoText)}
SeqMetas ==
    {MetaEl("meta", "name", "lastmod", DateStr(Yesterday), Null),
     MetaEl("meta", "property", "article:published_time", DateStr(ThreeDaysAgo), Null)}
SeqDocs(n) ==
    {d \in [url : {NoDateUrl, Url("date", Yesterday)}, ld : SeqUpTo(SeqLd, n),
             times : SeqUpTo(SeqTimes, n), metas : SeqUpTo(SeqMetas, n)] :
        Len(d.ld) + Len(d.times) + Len(d.metas) <= n}

InitSeq == Idle
NextSeq ==
    \/ \E d \in SeqDocs(MaxSeqItems) : Call(1, 1, d)
    \/ Step(1)
SpecSeq == InitSeq /\ [][NextSeq]_vars

\* Two threads have called parse on different documents, each on one of
\* the extractors, and run in any interleaving.
ConcDocs == {d \in MixDocs(1) : d.url = NoDateUrl}
InitConc ==
    /\ Constructed
    /\ pc = [t \in Threads |-> "harvest"]
    /\ self \in [Threads -> Instances]
    /\ arg \in {a \in [Threads -> ConcDocs] : a[1] # a[2]}
    /\ date_matches = [t \in Threads |-> <<>>]
    /\ ret = [t \in Threads |-> None]
NextConc == \E t \in Threads : Step(t)
SpecConc == InitConc /\ [][NextConc]_vars

\* One call on a document that holds <time> elements only.
Words == {"Updated", "MODIFIED", "Published", "on:", "Posted", "^Hon:"}
Texts == {NoText} \cup {Text(w) : w \in SeqUpTo(Words, MaxWords)}
TimeEls == {TimeEl(dt, text) : dt \in {Null, Bad, DateStr(Yesterday)}, text \in Texts}
TimeDocs == {Doc(NoDateUrl, <<>>, times, <<>>) : times \in SeqUpTo(TimeEls, MaxTime)}
InitTime == Called(TimeDocs)
SpecTime == InitTime /\ [][Next]_vars

\* One call on a document that holds structured data only.
DateVals == {Bad, DateStr(Yesterday), DateStr(TwoDaysAgo)}
GraphItems == {NonDict} \cup {Item(dm, dp) : dm, dp \in {Null} \cup DateVals}
GraphVals == {Null, Mapping} \cup {SeqVal(items) : items \in SeqUpTo(GraphItems, MaxGraph)}
LdPairs ==
    {<<"@graph", g>> : g \in GraphVals}
    \cup {<<k, v>> : k \in {"dateModified", "datePublished", "dateCreated"}, v \in DateVals}
LdObjs ==
    {o \in SeqUpTo(LdPairs, MaxKeys) :
        \A i, j \in 1..Len(o) : i # j => o[i][1] # o[j][1]}
LdDocs == {Doc(NoDateUrl, ld, <<>>, <<>>) : ld \in SeqUpTo(LdObjs, MaxLd)}
InitLd == Called(LdDocs)
SpecLd == InitLd /\ [][Next]_vars

\* One call on a document that holds meta/attribute elements only, dated
\* around the day of the call and around 25 years before it.
Days9133Ago == <<-(25 * 365) - 8, 0>>
ScoreDates ==
    {Bad, DateStr(Yesterday), DateStr(Tomorrow), DateStr(LaterToday),
     DateStr(Days9125Ago), DateStr(Days9126Ago), DateStr(Days9133Ago)}
ScoreMetas ==
    {MetaEl("meta", "name", "lastmod", v, Null) : v \in ScoreDates}
    \cup {MetaEl("meta", "property", "article:published_time", v, Null) : v \in ScoreDates}
    \cup {MetaEl(tag, "itemprop", "datePublished", Null, v) :
              tag \in {"meta", "span"}, v \in ScoreDates}
MetaDocs == {Doc(NoDateUrl, <<>>, <<>>, metas) : metas \in SeqUpTo(ScoreMetas, MaxMeta)}
InitMeta == Called(MetaDocs)
SpecMeta == InitMeta /\ [][Next]_vars

\* ------------------------------------------------------------------ claims
Range(s) == {s[i] : i \in 1..Len(s)}
Count(x, s) == Cardinality({i \in 1..Len(s) : s[i] = x})
IsPermutation(s, r) ==
    /\ Len(s) = Len(r)
    /\ \A x \in Range(s) \cup Range(r) : Count(x, s) = Count(x, r)

\* Scores descend, and among equal scores no "updated" entry follows an
\* entry of another type.
Ordered(s) ==
    \A i, j \in 1..Len(s) :
        i < j => /\ s[i][2] >= s[j][2]
                 /\ (s[i][2] = s[j][2] /\ s[j][3] = "updated" => s[i][3] = "updated")

\* The positions of the entries of a type with the highest score of that type.
Best(s, kind) ==
    {i \in 1..Len(s) : /\ s[i][3] = kind
                       /\ \A j \in 1..Len(s) : s[j][3] = kind => s[j][2] <= s[i][2]}
\* The datetime of the first of them, None when there is none.
FirstBest(s, kind) ==
    IF Best(s, kind) = {} THEN None
    ELSE s[CHOOSE i \in Best(s, kind) : \A j \in Best(s, kind) : i <= j][1]

\* C9: the sort step leaves the list in descending score order, with an
\* "updated" entry never after an entry of another type of the same score,
\* and the sorted list is a permutation of the harvested one (nothing added,
\* dropped or merged).
C9_SortOrdersAndPermutes ==
    [][\A t \in Threads :
        pc[t] = "sort" /\ pc'[t] = "set_updatedate"
        => /\ Ordered(date_matches'[t])
           /\ IsPermutation(date_matches[t], date_matches'[t])]_vars

\* The sort has run on a list holding a "published" entry ahead of an
\* "updated" entry of the same score, and on a list holding a duplicate.
C9_Witness ==
    /\ pc[1] = "set_updatedate"
    /\ LET h == harvest(arg[1]).m
       IN /\ \E i, j \in 1..Len(h) :
                i < j /\ h[i][2] = h[j][2] /\ h[i][3] = "published" /\ h[j][3] = "updated"
          /\ \E i, j \in 1..Len(h) : i < j /\ h[i] = h[j]
          /\ date_matches[1] # h

\* The candidates in the order C10 states: URL, structured data, <time>
\* elements, then the meta/attribute elements in document order.
RECURSIVE in_document_order(_)
in_document_order(metas) ==
    IF metas = <<>> THEN <<>>
    ELSE meta_matches(<<Head(metas)>>) \o in_document_order(Tail(metas))
StatedOrder(a) ==
    url_matches(a.url) \o ld_matches(a.ld).m \o time_matches(a.times)
    \o in_document_order(a.metas)

\* C10 as stated: among the candidates of a kind with the highest score of
\* that kind, the one selected is the first in the order URL, structured
\* data, <time> elements, meta/attribute elements, in document/key order
\* within each stage.
C10_AsStated ==
    pc[1] = "done"
    => /\ updatedate[1] = FirstBest(StatedOrder(arg[1]), "updated")
       /\ pubdate[1] = FirstBest(StatedOrder(arg[1]), "published")

\* C10, amended: the one selected is the first in harvest order, which
\* within the meta/attribute stage is the order of the lookup tables
\* (updated names, published names, attribute patterns) and document order
\* only among the elements one table entry matches; a URL date that parses
\* is always pubdate.
C10_FirstHarvestedWins ==
    pc[1] = "done"
    => /\ updatedate[1] = FirstBest(harvest(arg[1]).m, "updated")
       /\ pubdate[1] = FirstBest(harvest(arg[1]).m, "published")
       /\ (url_matches(arg[1].url) # <<>> => pubdate[1] = arg[1].url.d)

\* The URL date and a "@graph" datePublished of another day both have score
\* 10, and two "updated" meta elements share the highest score.
C10_Witness ==
    /\ pc[1] = "done"
    /\ LET h == harvest(arg[1]).m
       IN \E i, j \in 1..Len(h) :
            /\ i < j /\ h[i][1] # h[j][1]
            /\ {i, j} \subseteq Best(h, "published")
            /\ url_matches(arg[1].url) # <<>>
            /\ h[j][2] = 10
            /\ pubdate[1] = h[i][1]

\* C1: after a call that returned, updatedate is the datetime of a
\* highest-scored "updated" candidate of the harvested list (None when there
\* is none), pubdate that of a highest-scored "published" candidate, an
\* "unknown" candidate is never selected, and the call returned updatedate
\* when it is set and pubdate otherwise.
DatesOfBest(s, kind) == {s[i][1] : i \in Best(s, kind)}
SelectedFrom(s, kind, field) ==
    IF Best(s, kind) = {} THEN field = None ELSE field \in DatesOfBest(s, kind)
C1_SelectsHighestOfEachKind ==
    pc[1] = "done"
    => LET h == harvest(arg[1]).m
       IN /\ SelectedFrom(h, "updated", updatedate[1])
          /\ SelectedFrom(h, "published", pubdate[1])
          /\ ret[1] = IF updatedate[1] # None THEN updatedate[1] ELSE pubdate[1]
          /\ (h = <<>> => updatedate[1] = None /\ pubdate[1] = None /\ ret[1] = None)

\* A call returned on a list that holds "published" candidates of two
\* scores and an "unknown" candidate dated unlike every selected one.
C1_Witness ==
    /\ pc[1] = "done"
    /\ LET h == harvest(arg[1]).m
       IN /\ \E i, j \in 1..Len(h) :
                /\ h[i][3] = "published" /\ h[j][3] = "published"
                /\ h[i][2] > h[j][2] /\ h[i][1] # h[j][1]
                /\ pubdate[1] = h[i][1]
          /\ \E i \in 1..Len(h) :
                h[i][3] = "unknown" /\ h[i][1] \notin {updatedate[1], pubdate[1]}
          /\ updatedate[1] # None /\ ret[1] = updatedate[1]

\* C2: parse never leaves by an exception, whatever the collaborators return.
C2_NeverRaises == \A t \in Threads : pc[t] # "raised"

\* What a call on a alone, on a new extractor, leaves in updatedate and
\* pubdate and returns (nothing is stored or returned when it raises).
AloneFields(a) ==
    IF harvest(a).raised THEN <<None, None>>
    ELSE <<FirstBest(harvest(a).m, "updated"), FirstBest(harvest(a).m, "published")>>
AloneReturn(a) ==
    IF AloneFields(a)[1] # None THEN AloneFields(a)[1] ELSE AloneFields(a)[2]

\* C4: what a call returns, and what the extractor retains after it, are
\* determined by that call's URL and document alone, whatever was called
\* before.
C4_DeterminedByLastCall ==
    pc[1] \in {"done", "raised"}
    => /\ <<updatedate[1], pubdate[1]>> = AloneFields(arg[1])
       /\ (pc[1] = "done" => ret[1] = AloneReturn(arg[1]))

\* C3: each of two concurrent calls on different documents returns what it
\* would return alone on its own document, also on one shared extractor.
C3_ConcurrentCallsIndependent ==
    \A t \in Threads : pc[t] = "done" => ret[t] = AloneReturn(arg[t])

\* ---- C5
\* C5's classification of a <time> element's text, case-insensitively:
\* "updated" or "modified" first, then "published" or an "on:" marker.
StatedTimeMatch(item) ==
    LET low == {Lower(item.text.words[i]) : i \in 1..Len(item.text.words)}
    IN IF item.datetime.t # "date" THEN <<>>
       ELSE IF low \cap {"updated", "modified"} # {}
       THEN << <<item.datetime.d, 8, "updated">> >>
       ELSE IF low \cap {"published", "on:", "^Hon:"} # {}
       THEN << <<item.datetime.d, 7, "published">> >>
       ELSE << <<item.datetime.d, 5, "unknown">> >>
RECURSIVE StatedTimeMatches(_)
StatedTimeMatches(tags) ==
    IF tags = <<>> THEN <<>>
    ELSE StatedTimeMatch(Head(tags)) \o StatedTimeMatches(Tail(tags))

\* C5: every <time> element whose datetime parses yields exactly one
\* candidate, "updated" 8 / "published" 7 / "unknown" 5 by its text as C5
\* classifies it, and an element without a parseable datetime yields none.
C5_TimeClassification ==
    pc[1] = "sort" => date_matches[1] = StatedTimeMatches(arg[1].times)

\* ---- C6
StatedDate(v, score, kind) ==
    IF v.t = "date" THEN << <<v.d, score, kind>> >> ELSE <<>>
RECURSIVE StatedGraph(_)
StatedGraph(items) ==
    IF items = <<>> THEN <<>>
    ELSE (IF Head(items).dict
          THEN StatedDate(Head(items).dateModified, 10, "updated")
               \o StatedDate(Head(items).datePublished, 10, "published")
          ELSE <<>>)
         \o StatedGraph(Tail(items))
RECURSIVE StatedFlat(_)
StatedFlat(o) ==
    IF o = <<>> THEN <<>>
    ELSE (CASE Head(o)[1] = "dateModified" -> StatedDate(Head(o)[2], 9, "updated")
            [] Head(o)[1] \in {"datePublished", "dateCreated"} ->
                   StatedDate(Head(o)[2], 9, "published")
            [] OTHER -> <<>>)
         \o StatedFlat(Tail(o))
StatedObject(o) ==
    IF HasKey(o, "@graph") /\ Get(o, "@graph").t = "seq"
    THEN StatedGraph(Get(o, "@graph").items)
    ELSE StatedFlat(o)
RECURSIVE StatedLd(_)
StatedLd(ld) ==
    IF ld = <<>> THEN <<>> ELSE StatedObject(Head(ld)) \o StatedLd(Tail(ld))

\* C6: an object whose "@graph" is a sequence yields score-10 candidates
\* from the mappings in it; every other object, also one whose "@graph" is
\* no sequence, is read as flat and yields score-9 candidates from its
\* dateModified, datePublished and dateCreated.
C6_GraphOrFlat ==
    pc[1] = "sort" => date_matches[1] = StatedLd(arg[1].ld)

\* ---- C7, C8
\* The entries of `candidates` whose content attribute parses, in order:
\* date_matches holds one tuple for each.
ParsedPool(metas) ==
    SelectSeq(candidates(metas), LAMBDA c : get_attribute(c[1], c[2]).t = "date")
DateOf(c) == get_attribute(c[1], c[2]).d
DaysBefore(dt) == date(now) - date(dt)

\* Strictly later than the time of the call, as a date-time.
AfterNow(dt) == dt[1] > now[1] \/ (dt[1] = now[1] /\ dt[2] > now[2])
\* More than 25 calendar years before the call: 25 years hold six or seven
\* leap days.
Over25Years(dt) == DaysBefore(dt) > 25 * 365 + 7

StatedScore(c) ==
    6 + (IF c[1].tag = "meta" THEN 1 ELSE 0)
      + (IF c[3] = "updated" THEN 2 ELSE 0)
      - (IF AfterNow(DateOf(c)) THEN 2 ELSE 0)
      - (IF Over25Years(DateOf(c)) THEN 1 ELSE 0)
AmendedScore(c) ==
    6 + (IF c[1].tag = "meta" THEN 1 ELSE 0)
      + (IF c[3] = "updated" THEN 2 ELSE 0)
      - (IF date(DateOf(c)) > date(now) THEN 2 ELSE 0)
      - (IF DaysBefore(DateOf(c)) > 25 * 365 THEN 1 ELSE 0)

\* C7 as stated: the score is 6, +1 for a meta tag, +2 for "updated", -2
\* for a date-time strictly after the time of the call, -1 for a date more
\* than 25 years before it; it lies in 4..9, below the 10 of URL dates.
C7_AsStated ==
    pc[1] = "sort"
    => LET pool == ParsedPool(arg[1].metas)
       IN /\ Len(date_matches[1]) = Len(pool)
          /\ \A i \in 1..Len(pool) :
                /\ date_matches[1][i] = <<DateOf(pool[i]), StatedScore(pool[i]), pool[i][3]>>
                /\ date_matches[1][i][2] \in 4..9

\* C7, amended: -2 when the calendar date is after the day of the call (a
\* time later on the day of the call is not penalised), -1 when the date is
\* more than 25 * 365 days before the day of the call.
C7_MetaScore ==
    pc[1] = "sort"
    => LET pool == ParsedPool(arg[1].metas)
       IN /\ Len(date_matches[1]) = Len(pool)
          /\ \A i \in 1..Len(pool) :
                /\ date_matches[1][i] = <<DateOf(pool[i]), AmendedScore(pool[i]), pool[i][3]>>
                /\ date_matches[1][i][2] \in 4..9
                /\ date_matches[1][i][2] < 10

\* The harvest scored an "updated" meta tag dated later on the day of the
\* call at 9 and an element dated 9126 days before the call with its -1.
C7_Witness ==
    /\ pc[1] = "sort"
    /\ LET pool == ParsedPool(arg[1].metas)
       IN /\ Len(date_matches[1]) = Len(pool)
          /\ \E i, j \in 1..Len(pool) :
                /\ DateOf(pool[i]) = LaterToday /\ pool[i][3] = "updated"
                /\ date_matches[1][i][2] = 9
                /\ DateOf(pool[j]) = Days9126Ago /\ pool[j][1].tag = "span"
                /\ date_matches[1][j][2] = 5

\* Pairs of candidates of one tag form and kind, the first dated after the
\* day of the call and the second before it.
FuturePastPairs(pool) ==
    {p \in (1..Len(pool)) \X (1..Len(pool)) :
        /\ pool[p[1]][1].tag = pool[p[2]][1].tag
        /\ pool[p[1]][3] = pool[p[2]][3]
        /\ DaysBefore(DateOf(pool[p[1]])) < 0
        /\ DaysBefore(DateOf(pool[p[2]])) > 0}

\* C8 as stated: the future-dated candidate scores exactly 2 below the
\* past-dated one, whatever the past date.
C8_AsStated ==
    pc[1] = "sort"
    => \A p \in FuturePastPairs(ParsedPool(arg[1].metas)) :
          date_matches[1][p[1]][2] = date_matches[1][p[2]][2] - 2

\* C8, amended: exactly 2 below when the past date is at most 25 * 365 days
\* before the day of the call, and exactly 1 below when it is older.
C8_FutureTwoBelowRecentPast ==
    pc[1] = "sort"
    => LET pool == ParsedPool(arg[1].metas)
       IN /\ Len(date_matches[1]) = Len(pool)
          /\ \A p \in FuturePastPairs(pool) :
                date_matches[1][p[1]][2] =
                    date_matches[1][p[2]][2]
                    - (IF DaysBefore(DateOf(pool[p[2]])) > 25 * 365 THEN 1 ELSE 2)

\* The harvest scored two meta tags of one kind, one dated tomorrow and one
\* dated yesterday.
C8_Witness ==
    /\ pc[1] = "sort"
    /\ LET pool == ParsedPool(arg[1].metas)
       IN \E p \in FuturePastPairs(pool) :
            /\ DateOf(pool[p[1]]) = Tomorrow /\ DateOf(pool[p[2]]) = Yesterday
            /\ Len(date_matches[1]) = 2
            /\ date_matches[1][p[1]][2] = date_matches[1][p[2]][2] - 2

====
